---- MODULE Spec2Model ----
(***************************************************************************)
(* MyModel: a flat Qt table model over a vector of MyRect records, with    *)
(* role-based cell access (data/setData), row insertion (insertRows,       *)
(* slotAddData) and TSV persistence (saveToTsv/loadFromTsv).               *)
(*                                                                         *)
(* Text is a sequence of one-character strings, so that formatting and     *)
(* parsing are computed character by character.  A QColor is a record      *)
(* [valid, r, g, b]; a QVariant is a record tagged with its type; a        *)
(* QModelIndex is a record [valid, row, column].                           *)
(***************************************************************************)
EXTENDS Integers, Sequences, FiniteSets

VARIABLES
    m_vector,      \* QVector<MyRect>: the rows of the model
    before,        \* the rows as the last call found them
    m_headerData,  \* QStringList: the horizontal header texts
    call,          \* the operation invoked last, with its arguments
    ret,           \* what that call returned
    error,         \* the diagnostic that call stored in its error argument
    signals,       \* the notifications that call emitted, in emission order
    device,        \* the text that call wrote to its output device
    editor,        \* the editor widget the delegate works on
    dialog,        \* the colour picker that call opened, if any
    previous,      \* the call on the editor made before the last one
    steps          \* number of calls made so far

vars ==
    <<m_vector, before, m_headerData, call, ret, error, signals, device, editor,
      dialog, previous, steps>>

(***************************************************************************)
(* Bounds of the exploration.                                              *)
(***************************************************************************)
MaxRows == 3
MaxSteps == 2

(***************************************************************************)
(* Program constants.                                                      *)
(***************************************************************************)
columnCountValue == 7

NoPen == 0
SolidLine == 1
DashLine == 2
DotLine == 3
DashDotLine == 4
DashDotDotLine == 5

ColPenColor == 0
ColPenStyle == 1
ColPenWidth == 2
ColLeft == 3
ColTop == 4
ColWidth == 5
ColHeight == 6

IntMax == 2147483647
IntMin == -2147483647 - 1

(***************************************************************************)
(* Characters.                                                             *)
(***************************************************************************)
DecDigits == <<"0", "1", "2", "3", "4", "5", "6", "7", "8", "9">>
HexLower == <<"0", "1", "2", "3", "4", "5", "6", "7", "8", "9",
              "a", "b", "c", "d", "e", "f">>
HexUpper == <<"0", "1", "2", "3", "4", "5", "6", "7", "8", "9",
              "A", "B", "C", "D", "E", "F">>
UpperLetters == <<"A", "B", "C", "D", "E", "F", "G", "H", "I", "J", "K", "L", "M",
                  "N", "O", "P", "Q", "R", "S", "T", "U", "V", "W", "X", "Y", "Z">>
LowerLetters == <<"a", "b", "c", "d", "e", "f", "g", "h", "i", "j", "k", "l", "m",
                  "n", "o", "p", "q", "r", "s", "t", "u", "v", "w", "x", "y", "z">>

IsDigit(c) == \E i \in 1..10 : DecDigits[i] = c
DigitVal(c) == (CHOOSE i \in 1..10 : DecDigits[i] = c) - 1
IsHexDigit(c) == \E i \in 1..16 : HexLower[i] = c \/ HexUpper[i] = c
HexVal(c) == (CHOOSE i \in 1..16 : HexLower[i] = c \/ HexUpper[i] = c) - 1
IsSpace(c) == c \in {" ", "\t", "\n", "\r"}
ToLowerChar(c) ==
    IF \E i \in 1..26 : UpperLetters[i] = c
    THEN LowerLetters[CHOOSE i \in 1..26 : UpperLetters[i] = c]
    ELSE c

(***************************************************************************)
(* QString helpers.                                                        *)
(***************************************************************************)
\* QString::trimmed(): whitespace removed from both ends.
RECURSIVE TrimLeft(_)
TrimLeft(s) ==
    IF Len(s) > 0 /\ IsSpace(s[1]) THEN TrimLeft(Tail(s)) ELSE s

RECURSIVE TrimRight(_)
TrimRight(s) ==
    IF Len(s) > 0 /\ IsSpace(s[Len(s)])
    THEN TrimRight(SubSeq(s, 1, Len(s) - 1))
    ELSE s

Trimmed(s) == TrimRight(TrimLeft(s))

\* QString::split(sep): the pieces between separators, empty pieces kept.
\* The place of the first separator at or behind i; Len(s) + 1 without one.
NextSep(s, sep, i) ==
    IF \E j \in i..Len(s) : s[j] = sep
    THEN CHOOSE j \in i..Len(s) :
            s[j] = sep /\ \A k \in i..(j - 1) : s[k] # sep
    ELSE Len(s) + 1

RECURSIVE SplitFrom(_, _, _)
SplitAt(s, sep, i, j) ==
    IF j > Len(s) THEN <<SubSeq(s, i, Len(s))>>
    ELSE <<SubSeq(s, i, j - 1)>> \o SplitFrom(s, sep, j + 1)

SplitFrom(s, sep, i) == SplitAt(s, sep, i, NextSep(s, sep, i))

Split(s, sep) == SplitFrom(s, sep, 1)

\* QString::toInt(&ok), base 10: surrounding whitespace ignored, an optional
\* sign, at least one digit, the value within the 32-bit int range.
RECURSIVE AccumulateNeg(_, _, _)
AccumulateNeg(s, i, acc) ==
    IF i > Len(s) THEN [ok |-> TRUE, v |-> acc]
    ELSE IF ~IsDigit(s[i]) THEN [ok |-> FALSE, v |-> 0]
    ELSE IF acc < (IntMin + DigitVal(s[i]) + 9) \div 10
    THEN [ok |-> FALSE, v |-> 0]
    ELSE AccumulateNeg(s, i + 1, acc * 10 - DigitVal(s[i]))

IntResult(ok, v) == [ok |-> ok, v |-> v]

ParseDigits(digits) ==
    IF Len(digits) = 0 THEN IntResult(FALSE, 0) ELSE AccumulateNeg(digits, 1, 0)

NegativeResult(r) == IF r.ok THEN r ELSE IntResult(FALSE, 0)

PositiveResult(r) ==
    IF ~r.ok \/ r.v = IntMin THEN IntResult(FALSE, 0) ELSE IntResult(TRUE, -r.v)

SignedToInt(s) ==
    IF Len(s) > 0 /\ s[1] = "-" THEN NegativeResult(ParseDigits(Tail(s)))
    ELSE IF Len(s) > 0 /\ s[1] = "+" THEN PositiveResult(ParseDigits(Tail(s)))
    ELSE PositiveResult(ParseDigits(s))

ToInt(str) == SignedToInt(Trimmed(str))

\* QString::number(int): decimal digits, a leading minus for a negative value.
RECURSIVE NatToString(_)
NatToString(n) ==
    IF n < 10 THEN <<DecDigits[n + 1]>>
    ELSE Append(NatToString(n \div 10), DecDigits[(n % 10) + 1])

Number(n) == IF n < 0 THEN <<"-">> \o NatToString(-n) ELSE NatToString(n)

(***************************************************************************)
(* QColor.                                                                 *)
(***************************************************************************)
Rgb(r, g, b) == [valid |-> TRUE, r |-> r, g |-> g, b |-> b]
InvalidColor == [valid |-> FALSE, r |-> 0, g |-> 0, b |-> 0]
Black == Rgb(0, 0, 0)

Hex2(n) == <<HexLower[(n \div 16) + 1], HexLower[(n % 16) + 1]>>

\* QColor::name(): "#rrggbb", lower-case hexadecimal.
ColorName(c) == <<"#">> \o Hex2(c.r) \o Hex2(c.g) \o Hex2(c.b)

RECURSIVE HexNumber(_)
HexNumber(s) ==
    IF Len(s) = 0 THEN 0
    ELSE HexNumber(SubSeq(s, 1, Len(s) - 1)) * 16 + HexVal(s[Len(s)])

\* One colour component written with n hexadecimal digits, as 8 bits.
Scale8(v, n) ==
    CASE n = 1 -> v * 17
      [] n = 2 -> v
      [] n = 3 -> v \div 16
      [] OTHER -> v \div 256

HexComponent(s) == Scale8(HexNumber(s), Len(s))

RECURSIVE RemoveSpacesLower(_)
RemoveSpacesLower(s) ==
    IF Len(s) = 0 THEN <<>>
    ELSE IF s[1] \in {" ", "\t"} THEN RemoveSpacesLower(Tail(s))
    ELSE <<ToLowerChar(s[1])>> \o RemoveSpacesLower(Tail(s))

\* The colour names the model's inputs use, out of Qt's SVG colour table.
NamedColors ==
    { <<<<"b", "l", "a", "c", "k">>, Rgb(0, 0, 0)>>,
      <<<<"r", "e", "d">>, Rgb(255, 0, 0)>>,
      <<<<"g", "r", "e", "e", "n">>, Rgb(0, 128, 0)>> }

\* "#" followed by 3, 6, 9 or 12 hexadecimal digits (h: the digits).
HexColor(h, n) ==
    IF Len(h) \in {3, 6, 9, 12} /\ \A i \in 1..Len(h) : IsHexDigit(h[i])
    THEN Rgb(HexComponent(SubSeq(h, 1, n)),
             HexComponent(SubSeq(h, n + 1, 2 * n)),
             HexComponent(SubSeq(h, 2 * n + 1, 3 * n)))
    ELSE InvalidColor

\* A colour name, case and blanks ignored.
NamedColor(key) ==
    IF \E p \in NamedColors : p[1] = key
    THEN (CHOOSE p \in NamedColors : p[1] = key)[2]
    ELSE InvalidColor

\* QColor(const QString&): anything but "#..." digits or a name is invalid.
ColorFromString(s) ==
    IF Len(s) = 0 THEN InvalidColor
    ELSE IF s[1] = "#" THEN HexColor(Tail(s), (Len(s) - 1) \div 3)
    ELSE NamedColor(RemoveSpacesLower(s))

(***************************************************************************)
(* MyRect and the column schema.                                           *)
(***************************************************************************)
MyRect(penColor, penStyle, penWidth, left, top, width, height) ==
    [penColor |-> penColor, penStyle |-> penStyle, penWidth |-> penWidth,
     left |-> left, top |-> top, width |-> width, height |-> height]

\* MyRect{}: black, solid, pen width 1, at (0,0), 10 x 10.
DefaultRect == MyRect(Black, SolidLine, 1, 0, 0, 10, 10)

HeaderNames ==
    << <<"P", "e", "n", "C", "o", "l", "o", "r">>,
       <<"P", "e", "n", "S", "t", "y", "l", "e">>,
       <<"P", "e", "n", "W", "i", "d", "t", "h">>,
       <<"L", "e", "f", "t">>,
       <<"T", "o", "p">>,
       <<"W", "i", "d", "t", "h">>,
       <<"H", "e", "i", "g", "h", "t">> >>

(***************************************************************************)
(* Pen style <-> text.                                                     *)
(***************************************************************************)
StyleNames ==
    << <<"Q", "t", ":", ":", "N", "o", "P", "e", "n">>,
       <<"Q", "t", ":", ":", "S", "o", "l", "i", "d", "L", "i", "n", "e">>,
       <<"Q", "t", ":", ":", "D", "a", "s", "h", "L", "i", "n", "e">>,
       <<"Q", "t", ":", ":", "D", "o", "t", "L", "i", "n", "e">>,
       <<"Q", "t", ":", ":", "D", "a", "s", "h", "D", "o", "t", "L", "i", "n", "e">>,
       <<"Q", "t", ":", ":", "D", "a", "s", "h", "D", "o", "t", "D", "o", "t", "L", "i", "n", "e">> >>

WrappedPrefix == <<"Q", "t", ":", ":", "P", "e", "n", "S", "t", "y", "l", "e", "(">>

\* A conversion that writes every unknown style as the solid one.
penStyleToString_UnknownAsSolid(style) ==
    IF style \in NoPen..DashDotDotLine THEN StyleNames[style + 1]
    ELSE StyleNames[SolidLine + 1]

\* Qt::PenStyle -> text: the canonical name, or "Qt::PenStyle(N)".
penStyleToString(style) ==
    CASE style = NoPen          -> StyleNames[1]
      [] style = SolidLine      -> StyleNames[2]
      [] style = DashLine       -> StyleNames[3]
      [] style = DotLine        -> StyleNames[4]
      [] style = DashDotLine    -> StyleNames[5]
      [] style = DashDotDotLine -> StyleNames[6]
      [] OTHER -> WrappedPrefix \o Number(style) \o <<")">>

StyleResult(ok, style) == [ok |-> ok, style |-> style]

IsWrappedStyle(s) ==
    /\ Len(s) > Len(WrappedPrefix) + 1
    /\ SubSeq(s, 1, Len(WrappedPrefix)) = WrappedPrefix
    /\ s[Len(s)] = ")"

\* The N of "Qt::PenStyle(N)".
WrappedStyle(s) ==
    IF IsWrappedStyle(s)
    THEN ToInt(SubSeq(s, Len(WrappedPrefix) + 1, Len(s) - 1))
    ELSE IntResult(FALSE, 0)

NamedStyle(s) ==
    IF \E i \in 1..6 : StyleNames[i] = s
    THEN StyleResult(TRUE, (CHOOSE i \in 1..6 : StyleNames[i] = s) - 1)
    ELSE StyleResult(FALSE, SolidLine)

\* A parser that does not know the wrapped form.
StyleFromForms_NoWrapped(s, bare, wrapped) ==
    IF bare.ok THEN StyleResult(TRUE, bare.v) ELSE NamedStyle(s)

StyleFromForms(s, bare, wrapped) ==
    IF bare.ok THEN StyleResult(TRUE, bare.v)
    ELSE IF wrapped.ok THEN StyleResult(TRUE, wrapped.v)
    ELSE NamedStyle(s)

\* Tried in order: a bare integer, "Qt::PenStyle(N)", one of the six names.
penStyleFromString(s) == StyleFromForms(s, ToInt(s), WrappedStyle(s))

(***************************************************************************)
(* QVariant and QModelIndex.                                               *)
(***************************************************************************)
VInvalid == [t |-> "invalid"]
VColor(c) == [t |-> "color", c |-> c]
VInt(n) == [t |-> "int", n |-> n]
VString(s) == [t |-> "string", s |-> s]
VIcon(c) == [t |-> "icon", c |-> c]

\* QVariant::toInt(): 0 when the value does not convert.
VariantToInt(v) ==
    CASE v.t = "int"    -> v.n
      [] v.t = "string" -> ToInt(v.s).v
      [] OTHER          -> 0

\* QVariant::toString(): empty when the value does not convert.
VariantToString(v) ==
    CASE v.t = "string" -> v.s
      [] v.t = "int"    -> Number(v.n)
      [] v.t = "color"  -> ColorName(v.c)
      [] OTHER          -> <<>>

\* QVariant::canConvert<QColor>(): a colour, or a string (parsed as a colour).
CanConvertColor(v) == v.t \in {"color", "string"}

\* QVariant::value<QColor>().
VariantToColor(v) ==
    CASE v.t = "color"  -> v.c
      [] v.t = "string" -> ColorFromString(v.s)
      [] OTHER          -> InvalidColor

InvalidIndex == [valid |-> FALSE, row |-> -1, column |-> -1]
ValidIndex(row, column) == [valid |-> TRUE, row |-> row, column |-> column]

\* QAbstractTableModel::index(row, column): valid only inside the table.
Index(items, row, column) ==
    IF row >= 0 /\ row < Len(items) /\ column >= 0 /\ column < columnCountValue
    THEN ValidIndex(row, column)
    ELSE InvalidIndex

(***************************************************************************)
(* The editor widget of a cell: none, the default editor of the base       *)
(* delegate holding a value, or the combo box of the PenStyle column.      *)
(***************************************************************************)
NoEditor == [kind |-> "none"]
DefaultEditor(value) == [kind |-> "default", value |-> value]
ComboBox(items, currentIndex) ==
    [kind |-> "combo", items |-> items, currentIndex |-> currentIndex]

\* No call yet.
NoCall == [op |-> "none"]

\* QColorDialog::getColor(initial, ...): not opened, or opened on a colour.
NoDialog == [opened |-> FALSE]
ColorDialog(initial) == [opened |-> TRUE, initial |-> initial]

(***************************************************************************)
(* Notifications.  A structural notification records the row count the     *)
(* model reports at the moment it is emitted.                              *)
(***************************************************************************)
DataChanged(topLeft, bottomRight, roles) ==
    [sig |-> "dataChanged", topLeft |-> topLeft, bottomRight |-> bottomRight,
     roles |-> roles]
RowsAboutToBeInserted(first, last, rows) ==
    [sig |-> "rowsAboutToBeInserted", first |-> first, last |-> last, rows |-> rows]
RowsInserted(first, last, rows) ==
    [sig |-> "rowsInserted", first |-> first, last |-> last, rows |-> rows]
ModelAboutToBeReset(rows) == [sig |-> "modelAboutToBeReset", rows |-> rows]
ModelReset(rows) == [sig |-> "modelReset", rows |-> rows]

\* What a call leaves behind: its return value, the rows afterwards, the
\* notifications emitted, the diagnostic stored and the text written.
Result(r, items, sigs, err, text) ==
    [ret |-> r, items |-> items, signals |-> sigs, error |-> err, text |-> text]

NoError == [kind |-> "none", line |-> 0]
TsvError(kind, line) == [kind |-> kind, line |-> line]

Outcome(r, items, sigs) == Result(r, items, sigs, NoError, <<>>)

(***************************************************************************)
(* MyModel::rowCount, columnCount, data.                                   *)
(***************************************************************************)
\* A row count that does not look at the parent.
rowCount_AnyParent(items, parentValid) == Len(items)

rowCount(items, parentValid) == IF parentValid THEN 0 ELSE Len(items)

columnCount(parentValid) == IF parentValid THEN 0 ELSE columnCountValue

\* The stored field behind a column.
StoredField(r, column) ==
    CASE column = ColPenColor -> VColor(r.penColor)
      [] column = ColPenStyle -> VInt(r.penStyle)
      [] column = ColPenWidth -> VInt(r.penWidth)
      [] column = ColLeft     -> VInt(r.left)
      [] column = ColTop      -> VInt(r.top)
      [] column = ColWidth    -> VInt(r.width)
      [] column = ColHeight   -> VInt(r.height)

InsideTable(items, index) ==
    /\ index.valid
    /\ index.row >= 0 /\ index.row < Len(items)
    /\ index.column >= 0 /\ index.column < columnCountValue

\* A data() that answers the display role with the stored field itself.
data_DisplayAsEdit(items, index, role) ==
    IF ~InsideTable(items, index) THEN VInvalid
    ELSE IF role \in {"EditRole", "DisplayRole"}
    THEN StoredField(items[index.row + 1], index.column)
    ELSE IF role = "DecorationRole" /\ index.column = ColPenColor
    THEN VIcon(items[index.row + 1].penColor)
    ELSE VInvalid

\* A data() that answers the decoration role on every column.
data_DecorationAnyColumn(items, index, role) ==
    IF ~InsideTable(items, index) THEN VInvalid
    ELSE IF role = "EditRole"
    THEN StoredField(items[index.row + 1], index.column)
    ELSE IF role = "DisplayRole"
    THEN CASE index.column = ColPenColor ->
                  VString(ColorName(items[index.row + 1].penColor))
           [] index.column = ColPenStyle ->
                  VString(penStyleToString(items[index.row + 1].penStyle))
           [] OTHER -> StoredField(items[index.row + 1], index.column)
    ELSE IF role = "DecorationRole"
    THEN VIcon(items[index.row + 1].penColor)
    ELSE VInvalid

data(items, index, role) ==
    IF ~index.valid THEN VInvalid
    ELSE IF index.row < 0 \/ index.row >= Len(items) THEN VInvalid
    ELSE IF index.column < 0 \/ index.column >= columnCountValue THEN VInvalid
    ELSE
        LET r == items[index.row + 1]
            column == index.column
        IN  IF role = "EditRole" THEN
                CASE column = ColPenColor -> VColor(r.penColor)
                  [] column = ColPenStyle -> VInt(r.penStyle)
                  [] column = ColPenWidth -> VInt(r.penWidth)
                  [] column = ColLeft     -> VInt(r.left)
                  [] column = ColTop      -> VInt(r.top)
                  [] column = ColWidth    -> VInt(r.width)
                  [] column = ColHeight   -> VInt(r.height)
                  [] OTHER                -> VInvalid
            ELSE IF role = "DisplayRole" THEN
                CASE column = ColPenColor -> VString(ColorName(r.penColor))
                  [] column = ColPenStyle -> VString(penStyleToString(r.penStyle))
                  [] column = ColPenWidth -> VInt(r.penWidth)
                  [] column = ColLeft     -> VInt(r.left)
                  [] column = ColTop      -> VInt(r.top)
                  [] column = ColWidth    -> VInt(r.width)
                  [] column = ColHeight   -> VInt(r.height)
                  [] OTHER                -> VInvalid
            ELSE IF role = "DecorationRole" /\ column = ColPenColor THEN
                VIcon(r.penColor)
            ELSE VInvalid

(***************************************************************************)
(* MyModel::setData.                                                       *)
(***************************************************************************)
\* The colour the PenColor branch reads out of the value.
SetDataColor(value) ==
    IF CanConvertColor(value)
    THEN VariantToColor(value)
    ELSE ColorFromString(Trimmed(VariantToString(value)))

\* A branch that stores whatever colour it read.
ColorAccepted_Any(c) == TRUE

\* Whether the PenColor branch accepts the colour it read.
ColorAccepted(c) == c.valid

\* A comparison that takes every write for a change.
FieldDiffers_Always(old, new) == TRUE

\* A comparison that never sees a change.
FieldDiffers_Never(old, new) == FALSE

\* Each branch's comparison of the stored field with the new value.
FieldDiffers(old, new) == old # new

\* The switch over the column: whether the value is accepted, the record
\* afterwards, and the "changed" flag.
SetDataSwitch(r, column, value) ==
    CASE column = ColPenColor ->
            LET c == SetDataColor(value) IN
            IF ~ColorAccepted(c) THEN [ok |-> FALSE, rect |-> r, changed |-> FALSE]
            ELSE IF FieldDiffers(r.penColor, c)
            THEN [ok |-> TRUE, rect |-> [r EXCEPT !.penColor = c], changed |-> TRUE]
            ELSE [ok |-> TRUE, rect |-> r, changed |-> FALSE]
      [] column = ColPenStyle ->
            LET style == VariantToInt(value) IN
            IF FieldDiffers(r.penStyle, style)
            THEN [ok |-> TRUE, rect |-> [r EXCEPT !.penStyle = style], changed |-> TRUE]
            ELSE [ok |-> TRUE, rect |-> r, changed |-> FALSE]
      [] column = ColPenWidth ->
            LET w == VariantToInt(value) IN
            IF FieldDiffers(r.penWidth, w)
            THEN [ok |-> TRUE, rect |-> [r EXCEPT !.penWidth = w], changed |-> TRUE]
            ELSE [ok |-> TRUE, rect |-> r, changed |-> FALSE]
      [] column = ColLeft ->
            LET v == VariantToInt(value) IN
            IF FieldDiffers(r.left, v)
            THEN [ok |-> TRUE, rect |-> [r EXCEPT !.left = v], changed |-> TRUE]
            ELSE [ok |-> TRUE, rect |-> r, changed |-> FALSE]
      [] column = ColTop ->
            LET v == VariantToInt(value) IN
            IF FieldDiffers(r.top, v)
            THEN [ok |-> TRUE, rect |-> [r EXCEPT !.top = v], changed |-> TRUE]
            ELSE [ok |-> TRUE, rect |-> r, changed |-> FALSE]
      [] column = ColWidth ->
            LET v == VariantToInt(value) IN
            IF FieldDiffers(r.width, v)
            THEN [ok |-> TRUE, rect |-> [r EXCEPT !.width = v], changed |-> TRUE]
            ELSE [ok |-> TRUE, rect |-> r, changed |-> FALSE]
      [] column = ColHeight ->
            LET v == VariantToInt(value) IN
            IF FieldDiffers(r.height, v)
            THEN [ok |-> TRUE, rect |-> [r EXCEPT !.height = v], changed |-> TRUE]
            ELSE [ok |-> TRUE, rect |-> r, changed |-> FALSE]
      [] OTHER -> [ok |-> FALSE, rect |-> r, changed |-> FALSE]

\* The roles setData passes to dataChanged: none ("emit dataChanged(index, index)").
SetDataRoles(column) == {}

\* Guards that let every role through.
SetDataRejects_AnyRole(items, index, role) ==
    \/ ~index.valid
    \/ index.row < 0 \/ index.row >= Len(items)
    \/ index.column < 0 \/ index.column >= columnCountValue

\* The guards in front of the switch.
SetDataRejects(items, index, role) ==
    \/ ~index.valid
    \/ role # "EditRole"
    \/ index.row < 0 \/ index.row >= Len(items)
    \/ index.column < 0 \/ index.column >= columnCountValue


\* After the switch: store the record, return, notify when it changed.
\* A setData that takes the six known styles only.
SetDataFinish_KnownStylesOnly(items, index, sw) ==
    IF ~sw.ok \/ sw.rect.penStyle \notin 0..5 THEN Outcome(FALSE, items, <<>>)
    ELSE IF ~sw.changed
    THEN Outcome(TRUE, [items EXCEPT ![index.row + 1] = sw.rect], <<>>)
    ELSE Outcome(TRUE, [items EXCEPT ![index.row + 1] = sw.rect],
                 <<DataChanged(index, index, SetDataRoles(index.column))>>)

\* A setData that stores the changed record in the first row.
SetDataFinish_FirstRow(items, index, sw) ==
    IF ~sw.ok THEN Outcome(FALSE, items, <<>>)
    ELSE IF ~sw.changed
    THEN Outcome(TRUE, [items EXCEPT ![1] = sw.rect], <<>>)
    ELSE Outcome(TRUE, [items EXCEPT ![1] = sw.rect],
                 <<DataChanged(index, index, SetDataRoles(index.column))>>)

SetDataFinish(items, index, sw) ==
    IF ~sw.ok THEN Outcome(FALSE, items, <<>>)
    ELSE IF ~sw.changed
    THEN Outcome(TRUE, [items EXCEPT ![index.row + 1] = sw.rect], <<>>)
    ELSE Outcome(TRUE, [items EXCEPT ![index.row + 1] = sw.rect],
                 <<DataChanged(index, index, SetDataRoles(index.column))>>)

setData(items, index, value, role) ==
    IF SetDataRejects(items, index, role)
    THEN Outcome(FALSE, items, <<>>)
    ELSE SetDataFinish(items, index,
                       SetDataSwitch(items[index.row + 1], index.column, value))

(***************************************************************************)
(* MyModel::insertRows and slotAddData.                                    *)
(***************************************************************************)
\* QVector::insert(i, x).
InsertAt(items, i, x) ==
    SubSeq(items, 1, i) \o <<x>> \o SubSeq(items, i + 1, Len(items))

\* A normalisation that sends every position outside the table to its end.
ClampRow_OutsideToEnd(row, size) ==
    IF row < 0 \/ row > size THEN size ELSE row

\* Normalisation of the insert position.
ClampRow(row, size) ==
    IF row < 0 THEN 0
    ELSE IF row > size THEN size
    ELSE row

\* for (i = 0; i < count; ++i) m_vector.insert(row, MyRect{});
\* A loop that inserts nothing.
InsertLoop_None(items, row, i, count) == items

RECURSIVE InsertLoop(_, _, _, _)
InsertLoop(items, row, i, count) ==
    IF i >= count THEN items
    ELSE InsertLoop(InsertAt(items, row, DefaultRect), row, i + 1, count)

\* Guards that do not look at the parent.
InsertRowsRejects_AnyParent(count, parentValid) == count <= 0

\* The guards in front of the insertion.
InsertRowsRejects(count, parentValid) == parentValid \/ count <= 0

\* An insertion that announces its range after the rows are in.
InsertRowsAt_BeginAfter(items, p, count, after) ==
    Outcome(TRUE, after,
            << RowsAboutToBeInserted(p, p + count - 1, Len(after)),
               RowsInserted(p, p + count - 1, Len(after)) >>)

\* beginInsertRows, the insertions, endInsertRows.
InsertRowsAt(items, p, count, after) ==
    Outcome(TRUE, after,
            << RowsAboutToBeInserted(p, p + count - 1, Len(items)),
               RowsInserted(p, p + count - 1, Len(after)) >>)

InsertRowsClamped(items, p, count) ==
    InsertRowsAt(items, p, count, InsertLoop(items, p, 0, count))

insertRows(items, row, count, parentValid) ==
    IF InsertRowsRejects(count, parentValid)
    THEN Outcome(FALSE, items, <<>>)
    ELSE InsertRowsClamped(items, ClampRow(row, Len(items)), count)

\* The roles slotAddData passes to dataChanged: none.
SlotAddDataRoles == {}

\* m_vector[row] = rect; emit dataChanged(index(row, 0), index(row, last)).
AssignRow(after, row, sigs) ==
    Outcome(TRUE, after,
            sigs \o <<DataChanged(Index(after, row, 0),
                                  Index(after, row, columnCountValue - 1),
                                  SlotAddDataRoles)>>)

SlotAddDataFinish(row, rect, ins) ==
    IF ~ins.ret THEN ins
    ELSE AssignRow([ins.items EXCEPT ![row + 1] = rect], row, ins.signals)

slotAddData(items, rect) ==
    SlotAddDataFinish(Len(items), rect, insertRows(items, Len(items), 1, FALSE))

(***************************************************************************)
(* MyModel::headerData and setHeaderData.                                  *)
(***************************************************************************)
HeaderDataChanged(orientation, first, last) ==
    [sig |-> "headerDataChanged", orientation |-> orientation,
     first |-> first, last |-> last]

headerData(header, section, orientation, role) ==
    IF role # "DisplayRole" THEN VInvalid
    ELSE IF orientation = "Horizontal"
    THEN IF section >= 0 /\ section < Len(header)
         THEN VString(header[section + 1])
         ELSE VInvalid
    ELSE VInt(section + 1)

HeaderResult(r, header, sigs) == [ret |-> r, header |-> header, signals |-> sigs]

\* The guards in front of the assignment.
SetHeaderDataRejects(header, section, orientation, role) ==
    \/ role # "EditRole"
    \/ orientation # "Horizontal"
    \/ section < 0 \/ section >= Len(header)

setHeaderData(header, section, orientation, value, role) ==
    IF SetHeaderDataRejects(header, section, orientation, role)
    THEN HeaderResult(FALSE, header, <<>>)
    ELSE HeaderResult(TRUE,
                      [header EXCEPT ![section + 1] = VariantToString(value)],
                      <<HeaderDataChanged(orientation, section, section)>>)

(***************************************************************************)
(* TSV persistence: saveToTsv(QIODevice&) and loadFromTsv(QIODevice&).     *)
(* One line per record, seven tab-separated fields in column order.        *)
(***************************************************************************)
\* A check that takes every device for readable.
IsReadable_Any(mode) == TRUE

IsWritable(mode) == mode \in {"WriteOnly", "ReadWrite"}
IsReadable(mode) == mode \in {"ReadOnly", "ReadWrite"}

\* A writer that leaves an empty line behind every record.
TsvLine_BlankLineAfter(r) ==
    ColorName(r.penColor) \o <<"\t">> \o penStyleToString(r.penStyle) \o <<"\t">>
    \o Number(r.penWidth) \o <<"\t">> \o Number(r.left) \o <<"\t">>
    \o Number(r.top) \o <<"\t">> \o Number(r.width) \o <<"\t">>
    \o Number(r.height) \o <<"\n", "\n">>

TsvLine(r) ==
    ColorName(r.penColor) \o <<"\t">> \o penStyleToString(r.penStyle) \o <<"\t">>
    \o Number(r.penWidth) \o <<"\t">> \o Number(r.left) \o <<"\t">>
    \o Number(r.top) \o <<"\t">> \o Number(r.width) \o <<"\t">>
    \o Number(r.height) \o <<"\n">>

RECURSIVE TsvText(_)
TsvText(items) ==
    IF Len(items) = 0 THEN <<>>
    ELSE TsvLine(items[1]) \o TsvText(Tail(items))

saveToTsv(items, mode) ==
    IF ~IsWritable(mode)
    THEN Result(FALSE, items, <<>>, TsvError("notOpen", 0), <<>>)
    ELSE Result(TRUE, items, <<>>, NoError, TsvText(items))

\* QTextStream::readLine() until atEnd(): the text between line feeds.
DropLastIfEmpty(pieces) ==
    IF Len(pieces[Len(pieces)]) = 0
    THEN SubSeq(pieces, 1, Len(pieces) - 1)
    ELSE pieces

ReadLines(text) == DropLastIfEmpty(Split(text, "\n"))

LineResult(ok, rect, err) == [ok |-> ok, rect |-> rect, error |-> err]

\* The seven parsed fields of a line, checked in column order.
BuildRect(lineNo, color, style, w, l, t, wd, h) ==
    IF ~color.valid THEN LineResult(FALSE, DefaultRect, TsvError("color", lineNo))
    ELSE IF ~style.ok THEN LineResult(FALSE, DefaultRect, TsvError("style", lineNo))
    ELSE IF ~(w.ok /\ l.ok /\ t.ok /\ wd.ok /\ h.ok)
    THEN LineResult(FALSE, DefaultRect, TsvError("integer", lineNo))
    ELSE LineResult(TRUE, MyRect(color, style.style, w.v, l.v, t.v, wd.v, h.v),
                    NoError)

ParseFields(f, lineNo) ==
    IF Len(f) # columnCountValue
    THEN LineResult(FALSE, DefaultRect, TsvError("fieldCount", lineNo))
    ELSE BuildRect(lineNo, ColorFromString(f[1]), penStyleFromString(f[2]),
                   ToInt(f[3]), ToInt(f[4]), ToInt(f[5]), ToInt(f[6]), ToInt(f[7]))

\* One non-blank line: seven fields, a valid colour, a style, five integers.
ParseTsvLine(line, lineNo) == ParseFields(Split(line, "\t"), lineNo)

\* A reader that skips empty lines only.
IsBlankLine_EmptyOnly(line) == Len(line) = 0

\* Whether the reader skips the line.
IsBlankLine(line) == Len(Trimmed(line)) = 0

ParseResult(ok, items, err) == [ok |-> ok, items |-> items, error |-> err]

\* The read loop: records are collected in tmp; the first bad line ends it.
RECURSIVE ParseTsvLines(_, _, _)
ParseNext(lines, i, tmp, r) ==
    IF ~r.ok THEN ParseResult(FALSE, tmp, r.error)
    ELSE ParseTsvLines(lines, i + 1, Append(tmp, r.rect))

ParseTsvLines(lines, i, tmp) ==
    IF i > Len(lines) THEN ParseResult(TRUE, tmp, NoError)
    ELSE IF IsBlankLine(lines[i]) THEN ParseTsvLines(lines, i + 1, tmp)
    ELSE ParseNext(lines, i, tmp, ParseTsvLine(lines[i], i))

LoadOutcome(r, err, items, sigs) == Result(r, items, sigs, err, <<>>)

\* A load that keeps the old rows when the stream holds no record.
LoadCommit_KeepOnEmpty(items, parsed) ==
    IF parsed.ok /\ parsed.items # <<>> THEN parsed.items ELSE items

\* A load that keeps the records parsed before the bad line.
LoadCommit_Partial(items, parsed) == parsed.items

\* What the model holds after a load whose parse ended with `parsed`.
LoadCommit(items, parsed) == IF parsed.ok THEN parsed.items ELSE items

\* A load that appends the parsed records row by row.
LoadFinish_PerRow(items, parsed, after) ==
    IF ~parsed.ok THEN LoadOutcome(FALSE, parsed.error, items, <<>>)
    ELSE LoadOutcome(TRUE, NoError, items \o parsed.items,
                     << RowsAboutToBeInserted(Len(items),
                                              Len(items) + Len(parsed.items) - 1,
                                              Len(items)),
                        RowsInserted(Len(items),
                                     Len(items) + Len(parsed.items) - 1,
                                     Len(items) + Len(parsed.items)) >>)

\* beginResetModel, the swap, endResetModel; nothing on a failed parse.
LoadFinish(items, parsed, after) ==
    IF ~parsed.ok THEN LoadOutcome(FALSE, parsed.error, after, <<>>)
    ELSE LoadOutcome(TRUE, NoError, after,
                     <<ModelAboutToBeReset(Len(items)), ModelReset(Len(after))>>)

LoadParsed(items, parsed) == LoadFinish(items, parsed, LoadCommit(items, parsed))

loadFromTsv(items, mode, text) ==
    IF ~IsReadable(mode)
    THEN LoadOutcome(FALSE, TsvError("notOpen", 0), items, <<>>)
    ELSE LoadParsed(items, ParseTsvLines(ReadLines(text), 1, <<>>))

(***************************************************************************)
(* The arguments the calls are explored with.                              *)
(***************************************************************************)
Color112233 == Rgb(17, 34, 51)

RowArgs == {-3, 0, 1, 2, 9}
CountArgs == {-1, 0, 1, 2}

\* A valid QModelIndex has row >= 0 and column >= 0; it may be stale or belong
\* to another model, and then lies outside the table.
IndexArgs ==
    {InvalidIndex}
    \cup {ValidIndex(r, c) : r \in 0..1, c \in 0..(columnCountValue - 1)}
    \cup {ValidIndex(0, columnCountValue)}

ValueArgs ==
    { VColor(Color112233),
      VColor(InvalidColor),
      VString(<<"#", "1", "1", "2", "2", "3", "3">>),
      VString(<<"n", "o", "p", "e">>),
      VInt(3),
      VInt(7),
      VInt(-4) }

RoleArgs == {"EditRole", "DisplayRole", "DecorationRole"}

\* The last one carries a default-constructed QColor.
RectArgs ==
    { MyRect(Rgb(170, 187, 204), DotLine, 9, 1, 2, 3, 4),
      MyRect(Rgb(255, 0, 0), SolidLine, 2, -5, 100, 100, 100),
      MyRect(InvalidColor, DashLine, 1, 0, 0, 5, 5) }

ModeArgs == {"closed", "ReadOnly", "WriteOnly"}

SectionArgs == {-1, 0, columnCountValue}
OrientationArgs == {"Horizontal", "Vertical"}
HeaderValueArgs == {VString(<<"X">>)}
HeaderRoleArgs == {"EditRole", "DisplayRole"}

TsvInputs == <<
    \* 1: two well-formed records with canonical style names
       <<"#", "1", "1", "2", "2", "3", "3", "\t", "Q", "t", ":", ":", "D",
         "o", "t", "L", "i", "n", "e", "\t", "5", "\t", "1", "0", "\t", "2",
         "0", "\t", "3", "0", "\t", "4", "0", "\n", "#", "A", "A", "B", "B",
         "C", "C", "\t", "Q", "t", ":", ":", "D", "a", "s", "h", "L", "i",
         "n", "e", "\t", "1", "\t", "0", "\t", "0", "\t", "1", "\t", "2",
         "\n">>,
    \* 2: style as a bare integer and as Qt::PenStyle(N), a negative coordinate
       <<"#", "1", "1", "2", "2", "3", "3", "\t", "3", "\t", "3", "\t", "3",
         "\t", "3", "\t", "3", "\t", "3", "\n", "#", "4", "4", "5", "5", "6",
         "6", "\t", "Q", "t", ":", ":", "P", "e", "n", "S", "t", "y", "l",
         "e", "(", "7", ")", "\t", "2", "\t", "-", "1", "\t", "2", "\t", "3",
         "\t", "4", "\n">>,
    \* 3: six fields instead of seven
       <<"#", "1", "1", "2", "2", "3", "3", "\t", "Q", "t", ":", ":", "D",
         "o", "t", "L", "i", "n", "e", "\t", "1", "\t", "0", "\t", "0", "\t",
         "1", "0", "\n">>,
    \* 4: a well-formed record, then an invalid colour
       <<"#", "1", "1", "2", "2", "3", "3", "\t", "Q", "t", ":", ":", "D",
         "o", "t", "L", "i", "n", "e", "\t", "5", "\t", "1", "0", "\t", "2",
         "0", "\t", "3", "0", "\t", "4", "0", "\n", "N", "O", "T", "_", "A",
         "_", "C", "O", "L", "O", "R", "\t", "Q", "t", ":", ":", "D", "o",
         "t", "L", "i", "n", "e", "\t", "1", "\t", "0", "\t", "0", "\t", "1",
         "0", "\t", "1", "0", "\n">>,
    \* 5: an unrecognized style text
       <<"#", "1", "1", "2", "2", "3", "3", "\t", "Q", "t", ":", ":", "S",
         "o", "m", "e", "U", "n", "k", "n", "o", "w", "n", "S", "t", "y",
         "l", "e", "\t", "1", "\t", "0", "\t", "0", "\t", "1", "0", "\t",
         "1", "0", "\n">>,
    \* 6: a well-formed record, then a non-integer Left field
       <<"#", "0", "1", "0", "2", "0", "3", "\t", "Q", "t", ":", ":", "S",
         "o", "l", "i", "d", "L", "i", "n", "e", "\t", "1", "\t", "0", "\t",
         "0", "\t", "1", "0", "\t", "1", "0", "\n", "#", "1", "1", "2", "2",
         "3", "3", "\t", "Q", "t", ":", ":", "D", "o", "t", "L", "i", "n",
         "e", "\t", "1", "\t", "N", "O", "P", "E", "\t", "0", "\t", "1", "0",
         "\t", "1", "0", "\n">>,
    \* 7: blank and whitespace-only lines around one record
       <<"\n", " ", " ", "\n", "#", "0", "1", "0", "2", "0", "3", "\t", "Q",
         "t", ":", ":", "N", "o", "P", "e", "n", "\t", "1", "\t", "0", "\t",
         "0", "\t", "1", "0", "\t", "1", "0", "\n", "\n">>,
    \* 8: an empty stream
       <<>>
    >>

NumTsvInputs == Len(TsvInputs)

(***************************************************************************)
(* The state machine: one action per public operation of MyModel.          *)
(***************************************************************************)
\* MyModel::MyModel(): no rows, the seven header texts.
Init ==
    /\ m_vector = <<>>
    /\ before = <<>>
    /\ m_headerData = HeaderNames
    /\ call = [op |-> "MyModel"]
    /\ ret = TRUE
    /\ error = NoError
    /\ signals = <<>>
    /\ device = <<>>
    /\ editor = NoEditor
    /\ dialog = NoDialog
    /\ previous = NoCall
    /\ steps = 0

\* A call and what it leaves behind.
Returns(c, r) ==
    /\ steps < MaxSteps
    /\ Len(r.items) <= MaxRows
    /\ m_vector' = r.items
    /\ before' = m_vector
    /\ call' = c
    /\ ret' = r.ret
    /\ error' = r.error
    /\ signals' = r.signals
    /\ device' = r.text
    /\ steps' = steps + 1
    /\ UNCHANGED <<m_headerData, editor, dialog, previous>>

InsertRows(row, count, parentValid) ==
    Returns([op |-> "insertRows", row |-> row, count |-> count,
             parentValid |-> parentValid],
            insertRows(m_vector, row, count, parentValid))

SetData(index, value, role) ==
    Returns([op |-> "setData", index |-> index, value |-> value, role |-> role],
            setData(m_vector, index, value, role))

\* slotAddData returns nothing: ret is TRUE once the row is added.
SlotAddData(rect) ==
    Returns([op |-> "slotAddData", rect |-> rect], slotAddData(m_vector, rect))

SaveToTsv(mode) ==
    Returns([op |-> "saveToTsv", mode |-> mode], saveToTsv(m_vector, mode))

LoadFromTsv(mode, input) ==
    Returns([op |-> "loadFromTsv", mode |-> mode, input |-> input],
            loadFromTsv(m_vector, mode, TsvInputs[input]))

HeaderReturns(c, r) ==
    /\ steps < MaxSteps
    /\ m_headerData' = r.header
    /\ before' = m_vector
    /\ call' = c
    /\ ret' = r.ret
    /\ error' = NoError
    /\ signals' = r.signals
    /\ device' = <<>>
    /\ steps' = steps + 1
    /\ UNCHANGED <<m_vector, editor, dialog, previous>>

SetHeaderData(section, orientation, value, role) ==
    HeaderReturns([op |-> "setHeaderData", section |-> section,
                   orientation |-> orientation, value |-> value, role |-> role],
                  setHeaderData(m_headerData, section, orientation, value, role))

\* Roles other than the edit role are tried with two of the values only, and
\* devices that cannot be read with the first input only.
SetDataArgs ==
    { a \in IndexArgs \X ValueArgs \X RoleArgs :
        a[3] = "EditRole" \/ a[2] \in {VColor(Color112233), VInt(3)} }

LoadArgs ==
    { a \in ModeArgs \X (1..NumTsvInputs) : a[1] = "ReadOnly" \/ a[2] = 1 }

Next ==
    \/ \E row \in RowArgs, count \in CountArgs, parentValid \in BOOLEAN :
          InsertRows(row, count, parentValid)
    \/ \E a \in SetDataArgs : SetData(a[1], a[2], a[3])
    \/ \E rect \in RectArgs : SlotAddData(rect)
    \/ \E mode \in ModeArgs : SaveToTsv(mode)
    \/ \E a \in LoadArgs : LoadFromTsv(a[1], a[2])
    \/ \E section \in SectionArgs, orientation \in OrientationArgs,
          value \in HeaderValueArgs, role \in HeaderRoleArgs :
          SetHeaderData(section, orientation, value, role)

Spec == Init /\ [][Next]_vars

(***************************************************************************)
(* MyDelegate: the editor of a cell.  The PenStyle column is edited in a   *)
(* combo box; every other cell goes to QStyledItemDelegate.                *)
(***************************************************************************)
kPenStyleColumn == 1

ComboItem(text, userData) == [text |-> text, userData |-> userData]

\* QComboBox::addItem(text, userData).
addItem(items, text, userData) == Append(items, ComboItem(text, VInt(userData)))

fillPenStyleCombo(items) ==
    addItem(addItem(addItem(addItem(addItem(addItem(items,
        StyleNames[1], NoPen),
        StyleNames[2], SolidLine),
        StyleNames[3], DashLine),
        StyleNames[4], DotLine),
        StyleNames[5], DashDotLine),
        StyleNames[6], DashDotDotLine)

\* A search that finds nothing.
findData_Never(items, value) == -1

\* QComboBox::findData(value): the first entry holding the value, or -1.
findData(items, value) ==
    IF \E i \in 1..Len(items) : items[i].userData = value
    THEN (CHOOSE i \in 1..Len(items) :
            /\ items[i].userData = value
            /\ \A j \in 1..(i - 1) : items[j].userData # value) - 1
    ELSE -1

\* QComboBox::setCurrentIndex(index): an index outside the entries clears
\* the selection.
setCurrentIndex(combo, index) ==
    [combo EXCEPT !.currentIndex =
        IF index >= 0 /\ index < Len(combo.items) THEN index ELSE -1]

\* A combo box that shows a text it does not hold as payload.
currentData_AsText(combo) ==
    IF combo.currentIndex >= 0 /\ combo.currentIndex < Len(combo.items)
    THEN VString(combo.items[combo.currentIndex + 1].text)
    ELSE VInvalid

\* QComboBox::currentData(): the payload of the selected entry.
currentData(combo) ==
    IF combo.currentIndex >= 0 /\ combo.currentIndex < Len(combo.items)
    THEN combo.items[combo.currentIndex + 1].userData
    ELSE VInvalid

\* QStyledItemDelegate::createEditor: no editor for an invalid index, else
\* the editor of the item editor factory, still empty.
BaseCreateEditor(index) ==
    IF ~index.valid THEN NoEditor ELSE DefaultEditor(VInvalid)

\* The value as the editor's user property takes it: a colour as its name,
\* no value as the empty text.
EditorValue(v) ==
    CASE v.t = "color"   -> VString(ColorName(v.c))
      [] v.t = "invalid" -> VString(<<>>)
      [] OTHER           -> v

\* QStyledItemDelegate::setEditorData: the edit-role value goes to the
\* editor's user property.
BaseSetEditorData(ed, items, index) ==
    [ed EXCEPT !.value = EditorValue(data(items, index, "EditRole"))]

\* QStyledItemDelegate::setModelData: the user property is written with the
\* edit role.
BaseSetModelData(ed, items, index) ==
    setData(items, index, ed.value, "EditRole")

createEditor(index) ==
    IF ~index.valid THEN BaseCreateEditor(index)
    ELSE IF index.column # kPenStyleColumn THEN BaseCreateEditor(index)
    ELSE
        \* the first entry added to an empty combo box becomes the current one
        ComboBox(fillPenStyleCombo(<<>>), 0)

\* A delegate that leaves the combo box without selection for a style that
\* is not among the entries.
setEditorData_NoFallback(ed, items, index) ==
    IF ~index.valid \/ index.column # kPenStyleColumn
    THEN BaseSetEditorData(ed, items, index)
    ELSE setCurrentIndex(ed,
            findData(ed.items, VInt(VariantToInt(data(items, index, "EditRole")))))

setEditorData(ed, items, index) ==
    IF ~index.valid \/ index.column # kPenStyleColumn
    THEN BaseSetEditorData(ed, items, index)
    ELSE
        LET styleInt == VariantToInt(data(items, index, "EditRole"))
            pos == findData(ed.items, VInt(styleInt))
        IN  setCurrentIndex(ed, IF pos >= 0 THEN pos ELSE 0)

setModelData(ed, items, index) ==
    IF ~index.valid \/ index.column # kPenStyleColumn
    THEN BaseSetModelData(ed, items, index)
    ELSE setData(items, index, currentData(ed), "EditRole")

kPenColorColumn == 0

\* What editorEvent leaves behind: the result of the call on the model and
\* the colour picker it opened.
EventResult(r, dlg) == [result |-> r, dialog |-> dlg]

\* QStyledItemDelegate::editorEvent: it only toggles the check box of a
\* checkable item, and no item of MyModel is one.
BaseEditorEvent(items) == EventResult(Outcome(FALSE, items, <<>>), NoDialog)

\* The colour the picker starts on.
CurrentColor(cur) ==
    IF CanConvertColor(cur) THEN VariantToColor(cur)
    ELSE ColorFromString(Trimmed(VariantToString(cur)))

\* A delegate that writes the chosen colour with the display role.
EditorEventPicked_DisplayRole(items, index, selectedColor) ==
    IF selectedColor = InvalidColor THEN Outcome(TRUE, items, <<>>)
    ELSE [setData(items, index, VColor(selectedColor), "DisplayRole") EXCEPT !.ret = TRUE]

\* After the picker: selectedColor is invalid when the user cancelled.
EditorEventPicked(items, index, selectedColor) ==
    IF selectedColor = InvalidColor THEN Outcome(TRUE, items, <<>>)
    ELSE [setData(items, index, VColor(selectedColor), "EditRole") EXCEPT !.ret = TRUE]

\* A delegate that opens the picker for any mouse button.
EditorEventRejects_AnyButton(index, type, button) ==
    \/ ~index.valid
    \/ index.column # kPenColorColumn
    \/ type # "MouseButtonDblClick"

\* The early exits to the base class.
EditorEventRejects(index, type, button) ==
    \/ ~index.valid
    \/ index.column # kPenColorColumn
    \/ type # "MouseButtonDblClick"
    \/ button # "LeftButton"

editorEvent(items, index, type, button, selectedColor) ==
    IF EditorEventRejects(index, type, button) THEN BaseEditorEvent(items)
    ELSE EventResult(EditorEventPicked(items, index, selectedColor),
                     ColorDialog(CurrentColor(data(items, index, "EditRole"))))

(***************************************************************************)
(* The delegate at work on a table that holds rows already.                *)
(***************************************************************************)
MaxEdits == 3

\* Styles the cells hold: two known ones and one that is no entry.
DelegateStyles == {SolidLine, DotLine, 7}

StyledRect(style) == [DefaultRect EXCEPT !.penStyle = style]

\* Tables of up to two rows, as insertRows and setData leave them.
DelegateModels ==
    {<<>>}
    \cup {<<StyledRect(a)>> : a \in DelegateStyles}
    \cup {<<StyledRect(a), StyledRect(b)>> : a, b \in DelegateStyles}

DelegateInit ==
    /\ m_vector \in DelegateModels
    /\ before = m_vector
    /\ m_headerData = HeaderNames
    /\ call = [op |-> "MyDelegate"]
    /\ ret = TRUE
    /\ error = NoError
    /\ signals = <<>>
    /\ device = <<>>
    /\ editor = NoEditor
    /\ dialog = NoDialog
    /\ previous = NoCall
    /\ steps = 0

\* A call of the delegate: the editor and the rows it leaves behind.
DelegateReturns(c, ed, r) ==
    /\ steps < MaxEdits
    /\ editor' = ed
    /\ dialog' = NoDialog
    /\ previous' = call
    /\ m_vector' = r.items
    /\ before' = m_vector
    /\ call' = c
    /\ ret' = r.ret
    /\ signals' = r.signals
    /\ steps' = steps + 1
    /\ UNCHANGED <<m_headerData, error, device>>

\* The view asks for the editor of a cell.
CreateEditor(index) ==
    DelegateReturns([op |-> "createEditor", index |-> index],
                    createEditor(index), Outcome(TRUE, m_vector, <<>>))

\* The editor at hand is the one createEditor makes for the index.
EditorOf(index) ==
    /\ editor.kind # "none"
    /\ editor.kind = createEditor(index).kind

SetEditorData(index) ==
    /\ EditorOf(index)
    /\ DelegateReturns([op |-> "setEditorData", index |-> index],
                       setEditorData(editor, m_vector, index),
                       Outcome(TRUE, m_vector, <<>>))

\* The user picks an entry of the combo box.
SelectEntry(i) ==
    /\ editor.kind = "combo"
    /\ DelegateReturns([op |-> "setCurrentIndex", index |-> i],
                       setCurrentIndex(editor, i),
                       Outcome(TRUE, m_vector, <<>>))

SetModelData(index) ==
    /\ EditorOf(index)
    /\ DelegateReturns([op |-> "setModelData", index |-> index],
                       editor, setModelData(editor, m_vector, index))

DelegateNext ==
    \/ \E index \in IndexArgs : CreateEditor(index)
    \/ \E index \in IndexArgs : SetEditorData(index)
    \/ \E i \in 0..5 : SelectEntry(i)
    \/ \E index \in IndexArgs : SetModelData(index)

DelegateSpec == DelegateInit /\ [][DelegateNext]_vars

(***************************************************************************)
(* Mouse events on the cells of such a table.                              *)
(***************************************************************************)
MaxEvents == 2

\* No cell, the colour cells of two rows and a style cell.
EventIndexArgs ==
    {InvalidIndex, ValidIndex(0, kPenColorColumn), ValidIndex(1, kPenColorColumn),
     ValidIndex(0, kPenStyleColumn)}

EventTypeArgs == {"MouseButtonDblClick", "MouseButtonPress"}
ButtonArgs == {"LeftButton", "RightButton"}

\* What the user does in the picker: cancel (no colour) or confirm a colour.
PickArgs == {InvalidColor, Color112233, Black}

\* The view hands a mouse event on a cell to the delegate; the picker, when
\* it opens, returns the user's choice.
EditorEvent(index, type, button, selectedColor) ==
    LET e == editorEvent(m_vector, index, type, button, selectedColor) IN
    /\ steps < MaxEvents
    /\ dialog' = e.dialog
    /\ m_vector' = e.result.items
    /\ before' = m_vector
    /\ call' = [op |-> "editorEvent", index |-> index, type |-> type,
                button |-> button, selectedColor |-> selectedColor]
    /\ ret' = e.result.ret
    /\ signals' = e.result.signals
    /\ steps' = steps + 1
    /\ UNCHANGED <<m_headerData, error, device, editor, previous>>

EventNext ==
    \E index \in EventIndexArgs, type \in EventTypeArgs, button \in ButtonArgs,
       selectedColor \in PickArgs :
        EditorEvent(index, type, button, selectedColor)

EventSpec == DelegateInit /\ [][EventNext]_vars

(***************************************************************************)
(* loadFromTsv on streams of well-formed records and blank lines.          *)
(***************************************************************************)
\* Two well-formed lines, without their newline, and the records they hold.
RecordLineA ==
    <<"#", "1", "1", "2", "2", "3", "3", "\t", "Q", "t", ":", ":", "D", "o",
      "t", "L", "i", "n", "e", "\t", "5", "\t", "1", "0", "\t", "2", "0", "\t",
      "3", "0", "\t", "4", "0">>
RecordLineB ==
    <<"#", "A", "A", "B", "B", "C", "C", "\t", "Q", "t", ":", ":", "D", "a",
      "s", "h", "L", "i", "n", "e", "\t", "1", "\t", "0", "\t", "0", "\t", "1",
      "\t", "2">>
RecordA == MyRect(Color112233, DotLine, 5, 10, 20, 30, 40)
RecordB == MyRect(Rgb(170, 187, 204), DashLine, 1, 0, 0, 1, 2)

\* Nothing, an empty line, a line of spaces, an empty line and a line of a
\* tab and a space.
Blanks == { <<>>, <<"\n">>, <<" ", " ", "\n">>, <<"\n", "\t", " ", "\n">> }

\* A stream and the records its non-blank lines hold.
Stream(text, records) == [text |-> text, records |-> records]

\* Streams with blank lines before, between and after the records, streams
\* whose last line has no newline, and streams without any record.
BlankStreams ==
    { Stream(b1 \o RecordLineA \o <<"\n">> \o b2 \o RecordLineB \o <<"\n">> \o b3,
             <<RecordA, RecordB>>) : b1, b2, b3 \in Blanks }
    \cup { Stream(b1 \o RecordLineB \o <<"\n">> \o b2 \o RecordLineA,
                  <<RecordB, RecordA>>) : b1, b2 \in Blanks }
    \cup { Stream(b1 \o RecordLineA \o <<"\n">> \o b2 \o <<" ">>, <<RecordA>>) :
             b1, b2 \in Blanks }
    \cup { Stream(b1 \o b2, <<>>) : b1, b2 \in Blanks }
    \cup { Stream(<<" ">>, <<>>), Stream(<<"\n", "\t">>, <<>>) }

LoadStream(mode, stream) ==
    Returns([op |-> "loadFromTsv", mode |-> mode, text |-> stream.text,
             records |-> stream.records],
            loadFromTsv(m_vector, mode, stream.text))

LoadNext ==
    \E mode \in {"closed", "ReadOnly"}, stream \in BlankStreams :
        LoadStream(mode, stream)

LoadSpec == Init /\ [][LoadNext]_vars

(***************************************************************************)
(* penStyleFromString on its own: the texts it is given.                   *)
(***************************************************************************)
StyleCodes == -3..20

Wrapped(n) == WrappedPrefix \o Number(n) \o <<")">>

\* Texts that are neither an integer, nor a wrapped integer, nor a name.
OtherStyleTexts ==
    { <<"Q", "t", ":", ":", "S", "o", "m", "e", "U", "n", "k", "n", "o", "w",
        "n", "S", "t", "y", "l", "e">>,
      <<>>,
      <<"Q", "t", ":", ":", "P", "e", "n", "S", "t", "y", "l", "e", "(", ")">>,
      <<"Q", "t", ":", ":", "P", "e", "n", "S", "t", "y", "l", "e", "(", "x", ")">>,
      <<"q", "t", ":", ":", "d", "o", "t", "l", "i", "n", "e">>,
      <<"3", "x">>,
      <<"D", "o", "t">> }

StyleTexts ==
    {Number(n) : n \in StyleCodes}
    \cup {Wrapped(n) : n \in StyleCodes}
    \cup {StyleNames[i] : i \in 1..6}
    \cup OtherStyleTexts

PenStyleFromString(text) ==
    /\ steps < MaxSteps
    /\ call' = [op |-> "penStyleFromString", text |-> text]
    /\ ret' = penStyleFromString(text)
    /\ steps' = steps + 1
    /\ UNCHANGED <<m_vector, before, m_headerData, error, signals, device, editor,
                   dialog, previous>>

StyleNext == \E text \in StyleTexts : PenStyleFromString(text)

StyleSpec == Init /\ [][StyleNext]_vars

(***************************************************************************)
(* Properties of loadFromTsv and saveToTsv.                                *)
(***************************************************************************)
NotBlank(line) == ~IsBlankLine(line)

\* The lines of a text that the reader does not skip.
NonBlankLines(text) == SelectSeq(ReadLines(text), NotBlank)

\* A text with a line that is not a record.
HasMalformedLine(text) ==
    \E i \in 1..Len(NonBlankLines(text)) :
        ~ParseTsvLine(NonBlankLines(text)[i], i).ok

\* A well-formed record in front of the first line that is not one.
ValidBeforeMalformed(text) ==
    /\ Len(NonBlankLines(text)) >= 2
    /\ ParseTsvLine(NonBlankLines(text)[1], 1).ok
    /\ ~ParseTsvLine(NonBlankLines(text)[2], 2).ok

LoadedFromOpenDevice == call.op = "loadFromTsv" /\ call.mode = "ReadOnly"

\* C1: a load from a stream that holds a malformed line (wrong field count,
\* invalid colour, unrecognized style, non-integer number), also behind valid
\* lines, returns false with a diagnostic and leaves the model with exactly
\* the records it held, in the same order; nothing is notified.
C1_LoadIsAtomic ==
    (LoadedFromOpenDevice /\ HasMalformedLine(TsvInputs[call.input]))
        => /\ ret = FALSE
           /\ error.kind \in {"fieldCount", "color", "style", "integer"}
           /\ m_vector = before
           /\ signals = <<>>

\* A model of two records has refused a stream whose second line has a bad
\* colour behind a well-formed first line.
C1_Witness ==
    /\ LoadedFromOpenDevice
    /\ ValidBeforeMalformed(TsvInputs[call.input])
    /\ Len(before) = 2
    /\ ret = FALSE
    /\ error = TsvError("color", 2)

\* The three ways a style is written in a TSV file.
StyleForms == {"name", "bare", "wrapped"}

StyleWritten(style, form) ==
    CASE form = "name"    -> penStyleToString(style)
      [] form = "bare"    -> Number(style)
      [] form = "wrapped" -> WrappedPrefix \o Number(style) \o <<")">>

\* The text saveToTsv writes, with the style field rewritten in `form`.
RewriteFields(f, form) ==
    f[1] \o <<"\t">> \o StyleWritten(penStyleFromString(f[2]).style, form)
    \o <<"\t">> \o f[3] \o <<"\t">> \o f[4] \o <<"\t">> \o f[5] \o <<"\t">>
    \o f[6] \o <<"\t">> \o f[7] \o <<"\n">>

RECURSIVE RewriteLines(_, _, _)
RewriteLines(lines, i, form) ==
    IF i > Len(lines) THEN <<>>
    ELSE RewriteFields(Split(lines[i], "\t"), form)
         \o RewriteLines(lines, i + 1, form)

TextWithStyle(text, form) == RewriteLines(ReadLines(text), 1, form)

LoadFresh(text) == loadFromTsv(<<>>, "ReadOnly", text)

\* A load that succeeded and gave `items`.
LoadedAs(items, loaded) == loaded.ret /\ loaded.items = items

SavedLoadsAs(items, saved) == saved.ret /\ LoadedAs(items, LoadFresh(saved.text))

\* Saving `items` and loading the text into a fresh model gives `items` back.
RoundTrips(items) == SavedLoadsAs(items, saveToTsv(items, "WriteOnly"))

\* The same with the style field of the saved text written in `form`.
RoundTripsWritten(items, form) ==
    LoadedAs(items,
             LoadFresh(TextWithStyle(saveToTsv(items, "WriteOnly").text, form)))

AllColorsValid(items) == \A i \in 1..Len(items) : items[i].penColor.valid

\* C2 as stated: whatever records the model holds, saving them and loading
\* the text into a fresh model succeeds and gives the same rows, field for
\* field and in order, also with the style written as a name, a bare integer
\* or the wrapped integer.
C2_RoundTripAnyRecords ==
    /\ RoundTrips(m_vector)
    /\ \A form \in StyleForms : RoundTripsWritten(m_vector, form)

\* C2 amended: the round trip holds for the records whose pen colour is a
\* valid colour.
C2_RoundTripValidColors ==
    AllColorsValid(m_vector) => C2_RoundTripAnyRecords

\* Two records with valid colours, one with a style outside the six known
\* ones and a negative coordinate, survive the round trip.
C2_Witness ==
    /\ Len(m_vector) = 2
    /\ AllColorsValid(m_vector)
    /\ \E i \in 1..2 : m_vector[i].penStyle = 7 /\ m_vector[i].left < 0
    /\ \E i \in 1..2 : m_vector[i].penStyle = DotLine
    /\ RoundTrips(m_vector)
    /\ LoadFresh(TextWithStyle(TsvText(m_vector), "bare")).items = m_vector

\* The records of the non-blank lines of a text, in line order.
RecordsOf(text) ==
    [i \in 1..Len(NonBlankLines(text)) |->
        ParseTsvLine(NonBlankLines(text)[i], i).rect]

\* C3: a successful load replaces the whole collection by the records of the
\* non-blank lines, in line order, and notifies exactly one reset: begin
\* reset, then end reset, no row insertion and no cell change.
C3_LoadReplacesWithOneReset ==
    (call.op = "loadFromTsv" /\ ret = TRUE)
        => /\ m_vector = RecordsOf(TsvInputs[call.input])
           /\ signals = << ModelAboutToBeReset(Len(before)),
                           ModelReset(Len(m_vector)) >>

\* A model of two records has loaded a stream of one record between blank
\* lines; none of the two is left.
C3_Witness ==
    /\ call.op = "loadFromTsv" /\ ret = TRUE
    /\ Len(before) = 2
    /\ Len(m_vector) = 1
    /\ \A i \in 1..2 : before[i] # m_vector[1]
    /\ Len(signals) = 2

(***************************************************************************)
(* Properties of setData.                                                  *)
(***************************************************************************)
\* The last call was setData with the edit role on a cell of the table.
WroteCell ==
    /\ call.op = "setData"
    /\ call.role = "EditRole"
    /\ call.index.valid
    /\ call.index.row >= 0 /\ call.index.row < Len(before)
    /\ call.index.column >= 0 /\ call.index.column < columnCountValue

\* What the cell held when the call was made.
HeldValue == data(before, call.index, "EditRole")

\* The value as the column reads it: a colour, or an integer.
ValueRead ==
    IF call.index.column = ColPenColor
    THEN VColor(SetDataColor(call.value))
    ELSE VInt(VariantToInt(call.value))

Untouched == m_vector = before /\ signals = <<>>

\* C4 as stated: in every column, an edit-role write of the value the cell
\* already holds returns true, changes no record and notifies nothing.
C4_NoOpAnyValue ==
    (WroteCell /\ ValueRead = HeldValue) => (ret = TRUE /\ Untouched)

\* C4 amended: the same, for a value the column accepts (on the colour
\* column, a valid colour).
C4_NoOpAcceptedValue ==
    (WroteCell /\ ValueRead = HeldValue
        /\ (call.index.column = ColPenColor => ValueRead.c.valid))
    => (ret = TRUE /\ Untouched)

\* The style cell of the first row held 3 and 3 was written to it.
C4_Witness ==
    /\ WroteCell
    /\ call.index = ValidIndex(0, ColPenStyle)
    /\ HeldValue = VInt(3)
    /\ call.value = VInt(3)
    /\ ret = TRUE
    /\ signals = <<>>

\* C5: a write that changes the stored value notifies exactly once, for the
\* written cell alone, with the display and the edit role, and with the
\* decoration role exactly when the column is the colour column.
C5_ChangeNotifiesCellWithRoles ==
    (WroteCell /\ ret = TRUE /\ m_vector # before)
    => /\ Len(signals) = 1
       /\ signals[1].sig = "dataChanged"
       /\ signals[1].topLeft = call.index
       /\ signals[1].bottomRight = call.index
       /\ {"DisplayRole", "EditRole"} \subseteq signals[1].roles
       /\ ("DecorationRole" \in signals[1].roles
              <=> call.index.column = ColPenColor)

\* The value is a colour object or a text of the form "#RRGGBB".
IsHexColorText(v) ==
    /\ v.t = "string"
    /\ Len(v.s) = 7
    /\ v.s[1] = "#"
    /\ \A i \in 2..7 : IsHexDigit(v.s[i])

\* C6: on the colour column a value that is no valid colour is refused:
\* false, nothing changed, nothing notified; a valid colour object or a
\* valid "#RRGGBB" text is stored: true, and the edit role reads it back.
C6_ColorColumnValidates ==
    (WroteCell /\ call.index.column = ColPenColor)
    => /\ ~ValueRead.c.valid => (ret = FALSE /\ Untouched)
       /\ (ValueRead.c.valid /\ (call.value.t = "color" \/ IsHexColorText(call.value)))
             => /\ ret = TRUE
                /\ data(m_vector, call.index, "EditRole") = ValueRead

\* A text that names no colour was written to the colour cell of a row.
C6_Witness ==
    /\ WroteCell
    /\ call.index.column = ColPenColor
    /\ call.value = VString(<<"n", "o", "p", "e">>)
    /\ ret = FALSE
    /\ Len(m_vector) >= 1

\* C7: setData returns false, changes no record and notifies nothing when
\* the role is not the edit role, the index is invalid, or the row or the
\* column lies outside the table.
C7_RejectsRoleAndIndex ==
    (call.op = "setData" /\ ~WroteCell) => (ret = FALSE /\ Untouched)

\* A display-role write to a cell of the table was refused.
C7_Witness ==
    /\ call.op = "setData"
    /\ call.role = "DisplayRole"
    /\ call.index = ValidIndex(0, ColPenWidth)
    /\ Len(before) >= 1
    /\ call.value = VInt(3)
    /\ before[1].penWidth # 3
    /\ ret = FALSE

(***************************************************************************)
(* Properties of insertRows and slotAddData.                               *)
(***************************************************************************)
InsertAccepted ==
    call.op = "insertRows" /\ call.count > 0 /\ ~call.parentValid

\* p: 0 below the table, rowCount() beyond it, row otherwise.
InsertPosition ==
    IF call.row < 0 THEN 0
    ELSE IF call.row > Len(before) THEN Len(before)
    ELSE call.row

\* count records that are black, solid, pen width 1, at (0,0), 10 x 10.
Defaults(count) ==
    [i \in 1..count |->
        [penColor |-> [valid |-> TRUE, r |-> 0, g |-> 0, b |-> 0],
         penStyle |-> 1, penWidth |-> 1,
         left |-> 0, top |-> 0, width |-> 10, height |-> 10]]

\* C8: for count > 0 and the root parent insertRows returns true and the
\* rows become old[0..p), count default records, old[p..), with p the
\* clamped position; rowCount grows by count.
C8_InsertsDefaultsAtClampedRow ==
    InsertAccepted
    => /\ ret = TRUE
       /\ m_vector = SubSeq(before, 1, InsertPosition)
                     \o Defaults(call.count)
                     \o SubSeq(before, InsertPosition + 1, Len(before))
       /\ rowCount(m_vector, FALSE) = rowCount(before, FALSE) + call.count

\* One default record was inserted between the two records of the model.
C8_Witness ==
    /\ InsertAccepted
    /\ call.row = 1 /\ call.count = 1
    /\ Len(before) = 2
    /\ before[1] # DefaultRect /\ before[2] # DefaultRect
    /\ m_vector = <<before[1], DefaultRect, before[2]>>

\* C9: insertRows returns false, changes nothing and notifies nothing when
\* count <= 0 or the parent is a valid index, whatever the row.
C9_RejectsCountAndParent ==
    (call.op = "insertRows" /\ (call.count <= 0 \/ call.parentValid))
    => (ret = FALSE /\ Untouched)

\* An insertion of one row under a valid parent was refused.
C9_Witness ==
    /\ call.op = "insertRows"
    /\ call.parentValid /\ call.count = 1 /\ call.row = 0
    /\ Len(before) = 1
    /\ ret = FALSE

\* C10: slotAddData appends one row equal to rect and keeps the earlier
\* rows; after the two row-insert notifications it notifies a change of the
\* whole new row, columns 0 to 6, with the display, edit and decoration role.
C10_AppendsAndNotifiesRowWithRoles ==
    call.op = "slotAddData"
    => /\ Len(m_vector) = Len(before) + 1
       /\ m_vector[Len(m_vector)] = call.rect
       /\ SubSeq(m_vector, 1, Len(before)) = before
       /\ Len(signals) = 3
       /\ signals[1].sig = "rowsAboutToBeInserted"
       /\ signals[2].sig = "rowsInserted"
       /\ signals[3] = DataChanged(ValidIndex(Len(before), 0),
                                   ValidIndex(Len(before), 6),
                                   {"DisplayRole", "EditRole", "DecorationRole"})

(***************************************************************************)
(* Properties of data, rowCount, columnCount and the headers.              *)
(***************************************************************************)
Cell(row, column) == ValidIndex(row - 1, column)

Shown(row, column) == data(m_vector, Cell(row, column), "DisplayRole")
Edited(row, column) == data(m_vector, Cell(row, column), "EditRole")

KnownStyles == {NoPen, SolidLine, DashLine, DotLine, DashDotLine, DashDotDotLine}

\* The name shown for a style code: one of the six names, or the code wrapped.
StyleShown(n) ==
    IF n \in KnownStyles THEN StyleNames[n + 1]
    ELSE <<"Q", "t", ":", ":", "P", "e", "n", "S", "t", "y", "l", "e", "(">>
         \o Number(n) \o <<")">>

NumericColumns == {ColPenWidth, ColLeft, ColTop, ColWidth, ColHeight}

\* C11: in every row the display value of the colour column is the "#RRGGBB"
\* form of the edit-role colour, the display value of the style column is
\* the canonical name of the edit-role integer or the wrapped integer for a
\* code outside the six known ones, and the numeric columns show and edit
\* the same stored integer.
C11_RolesAreConsistent ==
    \A row \in 1..Len(m_vector) :
        /\ Edited(row, ColPenColor) = VColor(m_vector[row].penColor)
        /\ Shown(row, ColPenColor)
              = VString(ColorName(Edited(row, ColPenColor).c))
        /\ Edited(row, ColPenStyle) = VInt(m_vector[row].penStyle)
        /\ Shown(row, ColPenStyle)
              = VString(StyleShown(Edited(row, ColPenStyle).n))
        /\ \A column \in NumericColumns :
              /\ Shown(row, column) = Edited(row, column)
              /\ Edited(row, column) = StoredField(m_vector[row], column)

\* A row with the dot style and a row with style 7, shown by name and by
\* the wrapped integer.
C11_Witness ==
    /\ Len(m_vector) = 2
    /\ Edited(1, ColPenStyle) = VInt(DotLine)
    /\ Shown(1, ColPenStyle) = VString(StyleNames[DotLine + 1])
    /\ Edited(2, ColPenStyle) = VInt(7)
    /\ Shown(2, ColPenStyle)
          = VString(<<"Q", "t", ":", ":", "P", "e", "n", "S", "t", "y", "l",
                      "e", "(", "7", ")">>)
    /\ Shown(1, ColPenColor)
          = VString(<<"#", "1", "1", "2", "2", "3", "3">>)
    /\ Shown(2, ColLeft) = VInt(-1)

DataRoleArgs == {"EditRole", "DisplayRole", "DecorationRole", "ToolTipRole"}

\* The cases in which data() has no value to give.
NoValueFor(index, role) ==
    \/ ~index.valid
    \/ index.row < 0 \/ index.row >= rowCount(m_vector, FALSE)
    \/ index.column < 0 \/ index.column >= 7
    \/ role \notin {"DisplayRole", "EditRole", "DecorationRole"}
    \/ role = "DecorationRole" /\ index.column # ColPenColor

\* C12: data() returns the empty value for an invalid index, a row or column
\* outside the table, a role other than display, edit and decoration, and
\* the decoration role on a column other than the colour column.
C12_DataEmptyOutsideContract ==
    \A index \in IndexArgs, role \in DataRoleArgs :
        NoValueFor(index, role) => data(m_vector, index, role) = VInvalid

\* One row: its colour cell has an icon, its style cell has none, no cell
\* has a tool tip, and the index of a second row gives nothing.
C12_Witness ==
    /\ Len(m_vector) = 1
    /\ data(m_vector, ValidIndex(0, ColPenColor), "DecorationRole") # VInvalid
    /\ data(m_vector, ValidIndex(0, ColPenStyle), "DecorationRole") = VInvalid
    /\ data(m_vector, ValidIndex(0, ColPenStyle), "ToolTipRole") = VInvalid
    /\ data(m_vector, ValidIndex(1, ColPenStyle), "EditRole") = VInvalid
    /\ data(m_vector, ValidIndex(0, columnCountValue), "EditRole") = VInvalid

ChangesRows == {"insertRows", "setData", "slotAddData", "loadFromTsv"}

\* C13: after any calls of insertRows, setData, slotAddData and loadFromTsv
\* rowCount() is the number of records and columnCount() is 7 for the root
\* parent, and both are 0 for any other parent.
C13_CountsFollowRecords ==
    /\ rowCount(m_vector, FALSE) = Len(m_vector)
    /\ columnCount(FALSE) = 7
    /\ rowCount(m_vector, TRUE) = 0
    /\ columnCount(TRUE) = 0

\* Three records after an insertion into a loaded model.
C13_Witness ==
    /\ call.op = "insertRows" /\ ret = TRUE
    /\ Len(before) = 2
    /\ rowCount(m_vector, FALSE) = 3
    /\ rowCount(m_vector, TRUE) = 0

SchemaNames ==
    << <<"P", "e", "n", "C", "o", "l", "o", "r">>,
       <<"P", "e", "n", "S", "t", "y", "l", "e">>,
       <<"P", "e", "n", "W", "i", "d", "t", "h">>,
       <<"L", "e", "f", "t">>,
       <<"T", "o", "p">>,
       <<"W", "i", "d", "t", "h">>,
       <<"H", "e", "i", "g", "h", "t">> >>

\* C14: setHeaderData always returns false and changes nothing, so the
\* horizontal header of section i is always the i-th schema name for
\* 0 <= i < 7 and empty for any other section.
C14_HeadersAreFixed ==
    /\ call.op = "setHeaderData" => (ret = FALSE /\ signals = <<>>)
    /\ \A i \in -1..7 :
          headerData(m_headerData, i, "Horizontal", "DisplayRole")
             = IF 0 <= i /\ i < 7 THEN VString(SchemaNames[i + 1]) ELSE VInvalid

\* C15: saveToTsv on a device that is closed or not open for writing fails
\* with an error and writes nothing; loadFromTsv on a device that is closed
\* or not open for reading fails with an error and leaves the model as it
\* was.
C15_DeviceMustBeOpen ==
    /\ (call.op = "saveToTsv" /\ call.mode \in {"closed", "ReadOnly"})
          => /\ ret = FALSE
             /\ error # NoError
             /\ device = <<>>
             /\ Untouched
    /\ (call.op = "loadFromTsv" /\ call.mode \in {"closed", "WriteOnly"})
          => /\ ret = FALSE
             /\ error # NoError
             /\ Untouched

\* A model of two records has refused to load from a write-only device.
C15_Witness ==
    /\ call.op = "loadFromTsv" /\ call.mode = "WriteOnly"
    /\ Len(before) = 2
    /\ ret = FALSE
    /\ error.kind = "notOpen"

\* The seven fields of a record as they stand in a file.
FieldsOf(r) ==
    << ColorName(r.penColor), StyleShown(r.penStyle), Number(r.penWidth),
       Number(r.left), Number(r.top), Number(r.width), Number(r.height) >>

\* `pieces` are the N lines of `items`, each newline-terminated.
AreLinesOf(pieces, items) ==
    /\ Len(pieces) = Len(items) + 1
    /\ pieces[Len(pieces)] = <<>>
    /\ \A i \in 1..Len(items) : Split(pieces[i], "\t") = FieldsOf(items[i])

\* C16: a successful saveToTsv of N records writes N lines in row order,
\* each of seven tab-separated fields in schema order with one newline at
\* its end, no blank line, and leaves the model as it was.
C16_SaveWritesOneLinePerRecord ==
    (call.op = "saveToTsv" /\ ret = TRUE)
        => /\ AreLinesOf(Split(device, "\n"), m_vector)
           /\ Untouched

\* Two records were written as two lines.
C16_Witness ==
    /\ call.op = "saveToTsv" /\ ret = TRUE
    /\ Len(m_vector) = 2
    /\ Len(Split(device, "\n")) = 3
    /\ Len(Split(Split(device, "\n")[2], "\t")) = 7

\* C17: in every reachable state the pen width, the width and the height of
\* every record are non-negative.
C17_SizesAreNonNegative ==
    \A i \in 1..Len(m_vector) :
        /\ m_vector[i].penWidth >= 0
        /\ m_vector[i].width >= 0
        /\ m_vector[i].height >= 0

(***************************************************************************)
(* Properties of penStyleFromString.                                       *)
(***************************************************************************)
\* C18: penStyleFromString takes a bare integer, the wrapped integer
\* "Qt::PenStyle(N)" and the six canonical names, each giving its style with
\* success; any other text gives failure and the solid style.
C18_ThreeStyleForms ==
    call.op = "penStyleFromString"
    => /\ \A n \in StyleCodes :
            /\ call.text = Number(n) => ret = [ok |-> TRUE, style |-> n]
            /\ call.text = Wrapped(n) => ret = [ok |-> TRUE, style |-> n]
       /\ \A i \in 1..6 :
            call.text = StyleNames[i] => ret = [ok |-> TRUE, style |-> i - 1]
       /\ call.text \in OtherStyleTexts
            => ret = [ok |-> FALSE, style |-> SolidLine]

\* The wrapped 3 was read as the dot style.
C18_Witness ==
    /\ call.op = "penStyleFromString"
    /\ call.text = <<"Q", "t", ":", ":", "P", "e", "n", "S", "t", "y", "l", "e",
                     "(", "3", ")">>
    /\ ret = [ok |-> TRUE, style |-> DotLine]

(***************************************************************************)
(* Properties of MyDelegate on the PenStyle column.                        *)
(***************************************************************************)
\* The call was made on a PenStyle cell of the table.
OnStyleCell ==
    /\ call.index.valid
    /\ call.index.column = ColPenStyle
    /\ call.index.row >= 0
    /\ call.index.row < Len(before)

Payloads == {editor.items[i].userData : i \in 1..Len(editor.items)}

\* The payload of the entry the combo box shows.
Selected == editor.items[editor.currentIndex + 1].userData

\* C19: setEditorData on a PenStyle cell selects the entry whose payload is
\* the cell's edit-role integer, or the entry at index 0 when no entry has
\* that payload, and writes nothing to the model.
C19_EditorShowsCellStyle ==
    (call.op = "setEditorData" /\ OnStyleCell)
    => LET style == data(before, call.index, "EditRole") IN
       /\ editor.kind = "combo"
       /\ editor.currentIndex \in 0..(Len(editor.items) - 1)
       /\ style \in Payloads => Selected = style
       /\ style \notin Payloads => editor.currentIndex = 0
       /\ m_vector = before
       /\ signals = <<>>

\* The combo box was set to the dot style of the cell.
C19_Witness ==
    /\ call.op = "setEditorData"
    /\ OnStyleCell
    /\ before[call.index.row + 1].penStyle = DotLine
    /\ editor.currentIndex = 3

\* C20: setModelData on a PenStyle cell writes the payload of the selected
\* entry with the edit role: the cell then holds that payload and every
\* other cell is as it was.
C20_CellTakesSelectedPayload ==
    (call.op = "setModelData" /\ OnStyleCell)
    => /\ editor.kind = "combo"
       /\ data(m_vector, call.index, "EditRole") = Selected
       /\ Len(m_vector) = Len(before)
       /\ \A index \in IndexArgs :
            index # call.index
            => \A role \in DataRoleArgs :
                 data(m_vector, index, role) = data(before, index, role)

\* The dash entry was selected and written to a cell that held another style.
C20_Witness ==
    /\ call.op = "setModelData"
    /\ OnStyleCell
    /\ Selected = VInt(DashLine)
    /\ before[call.index.row + 1].penStyle # DashLine
    /\ m_vector[call.index.row + 1].penStyle = DashLine

(***************************************************************************)
(* Properties of MyDelegate::editorEvent.                                  *)
(***************************************************************************)
\* A double click with the left button on a valid index of the colour column.
OpensPicker ==
    /\ call.index.valid
    /\ call.index.column = ColPenColor
    /\ call.type = "MouseButtonDblClick"
    /\ call.button = "LeftButton"

Confirmed == call.selectedColor # InvalidColor

\* C21: editorEvent changes the model only for a valid index of the colour
\* column, a double click, the left button and a colour confirmed in the
\* picker; in every other case the rows are as before and nothing is
\* notified; the picker opens exactly when the first four conditions hold.
C21_WritesOnlyOnConfirmedDoubleClick ==
    call.op = "editorEvent"
    => /\ (m_vector # before \/ signals # <<>>) => (OpensPicker /\ Confirmed)
       /\ dialog.opened <=> OpensPicker

\* A confirmed colour changed a colour cell.
C21_Witness ==
    /\ call.op = "editorEvent"
    /\ OpensPicker
    /\ Confirmed
    /\ dialog.opened
    /\ m_vector # before

\* The event hit a colour cell of the table.
OnColorCell ==
    /\ OpensPicker
    /\ call.index.row >= 0
    /\ call.index.row < Len(before)

\* C22: a left-button double click on a colour cell is reported as handled
\* whether the user cancels, with the model untouched, or confirms, and
\* then the cell's edit-role value is the chosen colour.
C22_HandledOnCancelAndConfirm ==
    (call.op = "editorEvent" /\ OnColorCell)
    => /\ ret = TRUE
       /\ ~Confirmed => (m_vector = before /\ signals = <<>>)
       /\ Confirmed
            => data(m_vector, call.index, "EditRole") = VColor(call.selectedColor)

\* The user confirmed #112233 on a cell that held another colour.
C22_Witness ==
    /\ call.op = "editorEvent"
    /\ OnColorCell
    /\ call.selectedColor = Color112233
    /\ before[call.index.row + 1].penColor # Color112233
    /\ m_vector[call.index.row + 1].penColor = Color112233
    /\ ret = TRUE

(***************************************************************************)
(* Properties of the structural notifications.                             *)
(***************************************************************************)
IsInsertSignal(s) == s.sig \in {"rowsAboutToBeInserted", "rowsInserted"}

\* The begin-insert and end-insert notifications of the last call, in order.
InsertSignals == SelectSeq(signals, IsInsertSignal)

\* Every begin is followed at once by the end of the same range.
Paired(sq) ==
    /\ Len(sq) % 2 = 0
    /\ \A k \in 1..(Len(sq) \div 2) :
        /\ sq[2 * k - 1].sig = "rowsAboutToBeInserted"
        /\ sq[2 * k].sig = "rowsInserted"
        /\ sq[2 * k - 1].first = sq[2 * k].first
        /\ sq[2 * k - 1].last = sq[2 * k].last

\* C23: a successful insertRows emits begin-insert for [p, p + count - 1]
\* while the rows are still the old ones, inserts the count records, and
\* only then emits end-insert; begins and ends come in matched pairs, never
\* nested, in every call.
C23_InsertIsBracketed ==
    /\ Paired(InsertSignals)
    /\ InsertAccepted
        => /\ ret = TRUE
           /\ signals =
                << [sig |-> "rowsAboutToBeInserted", first |-> InsertPosition,
                    last |-> InsertPosition + call.count - 1,
                    rows |-> Len(before)],
                   [sig |-> "rowsInserted", first |-> InsertPosition,
                    last |-> InsertPosition + call.count - 1,
                    rows |-> Len(before) + call.count] >>
           /\ Len(m_vector) = Len(before) + call.count

\* Two rows were inserted behind the only row: begin saw 1 row, end saw 3.
C23_Witness ==
    /\ InsertAccepted
    /\ call.count = 2
    /\ Len(before) = 1
    /\ Len(signals) = 2
    /\ signals[1].sig = "rowsAboutToBeInserted" /\ signals[1].rows = 1
    /\ signals[2].sig = "rowsInserted" /\ signals[2].rows = 3
    /\ signals[1].first = 1 /\ signals[1].last = 2

(***************************************************************************)
(* Properties of loadFromTsv on blank lines.                               *)
(***************************************************************************)
\* C24: loadFromTsv skips blank and whitespace-only lines wherever they
\* stand: a stream of well-formed records and such lines loads without error
\* and leaves as many rows as it has non-blank lines, one per record.
C24_BlankLinesAreSkipped ==
    (call.op = "loadFromTsv" /\ call.mode = "ReadOnly")
    => /\ ret = TRUE
       /\ error = NoError
       /\ Len(m_vector) = Len(call.records)
       /\ m_vector = call.records

\* Blank lines before, between and after two records: two rows.
C24_Witness ==
    /\ call.op = "loadFromTsv"
    /\ call.mode = "ReadOnly"
    /\ call.text = <<" ", " ", "\n">> \o RecordLineA \o <<"\n">>
                   \o <<"\n", "\t", " ", "\n">> \o RecordLineB \o <<"\n">>
                   \o <<"\n">>
    /\ ret = TRUE
    /\ Len(m_vector) = 2

\* C29: a stream without a non-blank line, read from an open readable
\* device, loads successfully and leaves the model without rows, whatever
\* it held before.
C29_EmptyStreamEmptiesModel ==
    (call.op = "loadFromTsv" /\ call.mode = "ReadOnly" /\ call.records = <<>>)
    => /\ ret = TRUE
       /\ m_vector = <<>>
       /\ rowCount(m_vector, FALSE) = 0

\* A model of two rows has loaded a stream of whitespace only.
C29_Witness ==
    /\ call.op = "loadFromTsv"
    /\ call.mode = "ReadOnly"
    /\ call.records = <<>>
    /\ call.text # <<>>
    /\ Len(before) = 2
    /\ ret = TRUE
    /\ m_vector = <<>>

(***************************************************************************)
(* Properties of setData on the style and numeric columns.                 *)
(***************************************************************************)
WroteStyleCell == WroteCell /\ call.index.column = ColPenStyle

\* C25: setData on the style column does not validate the integer: every
\* integer, one of the six known codes or not, is stored as it is, read
\* back unchanged in the edit role and shown by its canonical name or, for
\* a code outside the six, by the wrapped integer.
C25_StyleStoredVerbatim ==
    (WroteStyleCell /\ call.value.t = "int")
    => /\ ret = TRUE
       /\ m_vector[call.index.row + 1].penStyle = call.value.n
       /\ data(m_vector, call.index, "EditRole") = call.value
       /\ data(m_vector, call.index, "DisplayRole")
            = VString(StyleShown(call.value.n))

\* 7 was written to a style cell and is shown as Qt::PenStyle(7).
C25_Witness ==
    /\ WroteStyleCell
    /\ call.value = VInt(7)
    /\ ret = TRUE
    /\ data(m_vector, call.index, "EditRole") = VInt(7)
    /\ data(m_vector, call.index, "DisplayRole")
         = VString(<<"Q", "t", ":", ":", "P", "e", "n", "S", "t", "y", "l", "e",
                     "(", "7", ")">>)

\* The field of a record that a column stands for.
ColumnFields ==
    <<"penColor", "penStyle", "penWidth", "left", "top", "width", "height">>

FieldAt(items, row, column) == items[row][ColumnFields[column + 1]]

\* C26: a setData call on cell (r, c), accepted or refused, keeps rowCount
\* and every field of every record except, possibly, the field of record r
\* that column c stands for.
C26_SetDataFrame ==
    call.op = "setData"
    => /\ rowCount(m_vector, FALSE) = rowCount(before, FALSE)
       /\ Len(m_vector) = Len(before)
       /\ \A row \in 1..Len(before), column \in 0..6 :
            (row # call.index.row + 1 \/ column # call.index.column)
            => FieldAt(m_vector, row, column) = FieldAt(before, row, column)

\* A write changed a cell of the second of two different rows.
C26_Witness ==
    /\ call.op = "setData"
    /\ ret = TRUE
    /\ call.index.row = 1
    /\ Len(before) = 2
    /\ before[1] # before[2]
    /\ m_vector[1] = before[1]
    /\ m_vector[2] # before[2]

\* A value QVariant::toInt() cannot convert.
NotAnInteger(v) ==
    \/ v.t \in {"color", "invalid", "icon"}
    \/ v.t = "string" /\ ~ToInt(v.s).ok

\* C28: on the style and numeric columns setData returns true for every
\* value written with the edit role to a cell of the table; a value that
\* does not convert to an integer is stored as 0, with one change
\* notification for the cell when the field was not 0 and none when it was.
C28_NonColorColumnsNeverReject ==
    (WroteCell /\ call.index.column # ColPenColor)
    => /\ ret = TRUE
       /\ NotAnInteger(call.value)
            => /\ FieldAt(m_vector, call.index.row + 1, call.index.column) = 0
               /\ FieldAt(before, call.index.row + 1, call.index.column) # 0
                    => /\ Len(signals) = 1
                       /\ signals[1].sig = "dataChanged"
                       /\ signals[1].topLeft = call.index
                       /\ signals[1].bottomRight = call.index
               /\ FieldAt(before, call.index.row + 1, call.index.column) = 0
                    => signals = <<>>

\* The text "nope" was written to a width cell that held 10.
C28_Witness ==
    /\ WroteCell
    /\ call.index.column = ColWidth
    /\ call.value = VString(<<"n", "o", "p", "e">>)
    /\ ret = TRUE
    /\ before[call.index.row + 1].width = 10
    /\ m_vector[call.index.row + 1].width = 0
    /\ Len(signals) = 1

(***************************************************************************)
(* Properties of rowCount over the calls.                                  *)
(***************************************************************************)
\* C30: rowCount does not decrease under insertRows, slotAddData, setData,
\* setHeaderData, saveToTsv or a failed loadFromTsv, and every successful
\* insertRows and every slotAddData makes it larger.
C30_RowCountGrowsExceptOnLoad ==
    /\ (call.op # "loadFromTsv" \/ ret = FALSE)
        => rowCount(m_vector, FALSE) >= rowCount(before, FALSE)
    /\ ((call.op = "insertRows" /\ ret = TRUE) \/ call.op = "slotAddData")
        => rowCount(m_vector, FALSE) > rowCount(before, FALSE)

\* Two rows were inserted into a model of one row.
C30_Witness ==
    /\ call.op = "insertRows"
    /\ ret = TRUE
    /\ call.count = 2
    /\ rowCount(before, FALSE) = 1
    /\ rowCount(m_vector, FALSE) = 3

(***************************************************************************)
(* Properties of opening and committing the style editor.                  *)
(***************************************************************************)
\* setModelData was called right after setEditorData on the same style cell.
CommittedUnselected ==
    /\ call.op = "setModelData"
    /\ previous.op = "setEditorData"
    /\ previous.index = call.index
    /\ OnStyleCell

\* The style code the cell held when the editor was opened.
StoredCode == before[call.index.row + 1].penStyle

\* C27: setEditorData followed by setModelData on the same style cell,
\* with no selection in between, leaves the rows unchanged without any
\* notification when the stored code is one of the six known codes; for
\* any other code the cell becomes NoPen (0), the first entry's code, and
\* one change notification is emitted.
C27_CommitKeepsKnownStyles ==
    CommittedUnselected
    => /\ StoredCode \in KnownStyles => (m_vector = before /\ signals = <<>>)
       /\ StoredCode \notin KnownStyles
            => /\ m_vector = [before EXCEPT ![call.index.row + 1].penStyle = NoPen]
               /\ m_vector # before
               /\ Len(signals) = 1
               /\ signals[1].sig = "dataChanged"
               /\ signals[1].topLeft = call.index
               /\ signals[1].bottomRight = call.index

\* A cell that held 7 was opened and committed: it holds NoPen now.
C27_Witness ==
    /\ CommittedUnselected
    /\ StoredCode = 7
    /\ m_vector[call.index.row + 1].penStyle = NoPen
    /\ Len(signals) = 1

====
